---- MODULE Spec2Model ----
(***************************************************************************)
(* The object engine of jrsonnet-evaluator (src/crates/jrsonnet-evaluator/ *)
(* src/obj.rs): ObjValue nodes with a super chain, own members, own        *)
(* assertions, an optional pinned self (this_obj), a per-node value cache  *)
(* and a per-node set of assertion-run markers.                            *)
(*                                                                         *)
(* Object identity (Gc pointer equality, obj.rs 256-272) is the index of   *)
(* the node in the heap: 1..Len(super_obj).  0 stands for Option::None.    *)
(* A Val is an array of literal ids, and evaluate_add_op on two arrays is  *)
(* concatenation.  Option<Val> is <<>> (None) or <<v>> (Some(v)).          *)
(*                                                                         *)
(* Three specifications share the heap:                                    *)
(*   Spec     objects are built, and read by get and run_assertions;       *)
(*   SpecVis  the enumeration and visibility queries on every chain of     *)
(*            MaxDepth nodes;                                              *)
(*   SpecExt  objects are built and grafted by extend_from up to MaxHeap   *)
(*            nodes, nothing is read.                                      *)
(***************************************************************************)
EXTENDS Integers, Sequences, FiniteSets, TLC

\* ------------------------------------------------------------------ bounds
MaxNodes == 3
MaxCalls == 2

\* ------------------------------------------------------------- the program
VARIABLES
    super_obj,       \* node -> parent node or NoObj           (obj.rs 25)
    assertions,      \* node -> sequence of own assertions     (obj.rs 26)
    assertions_ran,  \* node -> set of targets already run     (obj.rs 27)
    this_obj,        \* node -> pinned self or NoObj           (obj.rs 28)
    this_entries,    \* node -> [Keys -> member or NoMember]   (obj.rs 29)
    value_cache,     \* node -> [<<key, this>> -> Option<Val>] (obj.rs 30)
    \* ------------------------------------------------------------ history
    calls,           \* number of get / run_assertions calls made by the client
    last,            \* what the last client call did
    nrun,            \* <<node, target, i>> -> times assertion i of node was invoked
    passed,          \* <<node, target, i>> whose invocation has ever succeeded
    forcedOk,        \* <<node, key, self>> -> times the member was forced to a value
    kept,            \* <<node, key, self>> -> resolutions of an own member that completed
    returned,        \* <<receiver, key>> -> Option<Val> a client get returned
    failedGet,       \* <<receiver, key>> of every get that failed (key "": run_assertions)
    made,            \* node -> the constructor call that allocated it
    query            \* what the last enumeration / visibility query returned

progVars == <<super_obj, assertions, assertions_ran, this_obj, this_entries, value_cache>>
histVars == <<calls, last, nrun, passed, forcedOk, kept, returned, failedGet>>
vars == <<super_obj, assertions, assertions_ran, this_obj, this_entries, value_cache,
          calls, last, nrun, passed, forcedOk, kept, returned, failedGet, made, query>>

NoObj == 0
Keys == {"a", "b"}
Visibility == {"Normal", "Hidden", "Unhide"}

None == <<>>
Some(v) == <<v>>
Ok(v) == [ok |-> TRUE, val |-> v, err |-> ""]
Err(e) == [ok |-> FALSE, val |-> <<>>, err |-> e]

Nodes == 1..Len(super_obj)

\* ------------------------------------------------ members and assertions
\* ObjMember: the additive flag, the visibility and the lazy binding.  A
\* binding is a literal array [lit] or the expression self.key.
NoMember == [add |-> FALSE, visibility |-> "Normal", invoke |-> [kind |-> "none", lit |-> 0, key |-> "a"]]
LitMember(lit, add, vis) == [add |-> add, visibility |-> vis, invoke |-> [kind |-> "lit", lit |-> lit, key |-> "a"]]
SelfMember(key, add, vis) == [add |-> add, visibility |-> vis, invoke |-> [kind |-> "self", lit |-> 0, key |-> key]]
Present(m) == m.invoke.kind # "none"

NoEntries == [k \in Keys |-> NoMember]
Entries1(key, m) == [k \in Keys |-> IF k = key THEN m ELSE NoMember]

\* An assertion either is a plain predicate or first reads self.reads.
PlainAssert(id) == [id |-> id, reads |-> ""]
ReadAssert(id, key) == [id |-> id, reads |-> key]

\* The object literals the client program builds objects from:
\*   { a: [1] }      { a+: [2] }      { assert self.a ..., b: self.a }
ObjLits == <<
    [entries |-> Entries1("a", LitMember(1, FALSE, "Normal")), asserts |-> <<>>],
    [entries |-> Entries1("a", LitMember(2, TRUE, "Normal")), asserts |-> <<>>],
    [entries |-> Entries1("b", SelfMember("a", FALSE, "Normal")), asserts |-> <<ReadAssert(1, "a")>>] >>

\* What the environment makes fail during one client call: nothing, the
\* assertion's predicate, the thunk of the literal [1], or evaluate_add_op.
NoFault == [kind |-> "none", id |-> 0]
Faults == {NoFault, [kind |-> "assert", id |-> 1], [kind |-> "member", id |-> 1],
           [kind |-> "add", id |-> 0]}

\* ----------------------------------------------------------------- helpers
Count(f, x) == IF x \in DOMAIN f THEN f[x] ELSE 0
Inc(f, x) == [y \in DOMAIN f \cup {x} |-> IF y = x THEN Count(f, x) + 1 ELSE f[y]]
Put(f, x, v) == [y \in DOMAIN f \cup {x} |-> IF y = x THEN v ELSE f[y]]
EmptyMap == [x \in {} |-> 0]

RECURSIVE Chain(_)
\* The nodes of n's super chain, n first.
Chain(n) == IF n = NoObj THEN <<>> ELSE <<n>> \o Chain(super_obj[n])
ChainSet(n) == {Chain(n)[i] : i \in 1..Len(Chain(n))}

\* ------------------------------------------------------------ the engine
\* The engine's operators thread a record st through every nested call:
\*   ran, cache            assertions_ran and value_cache of every node
\*   nrun, passed, forcedOk, kept, failedGet   the history variables
\*   recv                  receiver of the innermost public get in progress
\*   forced, asserted, errFrames, failedAt     what this client call did
\*   rewritten             the cache keys it inserted over an existing entry
\*   running               the assertions whose invocation is in progress
\*   reentered             the assertions invoked while an assertion for the
\*                         same target was in progress
\* and return [st |-> the new record, res |-> the Result].
Ret(st, res) == [st |-> st, res |-> res]

\* evaluate_add_op(a, b) of the evaluator on two arrays: concatenation.
AddOp(a, b, fault) == IF fault.kind = "add" THEN Err("add") ELSE Ok(a \o b)

\* Faulty variant: inserting a target drops the targets recorded before.
RanInsertOverwrite(ran, n, t) == [ran EXCEPT ![n] = {t}]
\* Faulty variant: the first insertion into an empty set is lost.
RanInsertLossy(ran, n, t) ==
    IF ran[n] = {} THEN [ran EXCEPT ![n] = {NoObj}] ELSE [ran EXCEPT ![n] = @ \cup {t}]
RanInsert(ran, n, t) == [ran EXCEPT ![n] = @ \cup {t}]
RanRemove(ran, n, t) == [ran EXCEPT ![n] = @ \ {t}]

\* Faulty variant: the cache is keyed by the node, not by the effective self.
CacheKeyByNode(n, key, real_this) == <<key, n>>
CacheKey(n, key, real_this) == <<key, real_this>>
\* Faulty variant: the cache is never consulted.
CacheHitNever(cache, n, cache_key) == FALSE
CacheHit(cache, n, cache_key) == cache_key \in DOMAIN cache[n]
\* Faulty variant: nothing is stored; None is not stored.
CacheInsertNothing(cache, n, cache_key, value) == cache
CacheInsertSomeOnly(cache, n, cache_key, value) ==
    IF value = None THEN cache ELSE [cache EXCEPT ![n] = Put(@, cache_key, value)]
\* Faulty variant: the insertion drops the node's other entries.
CacheInsertEvicting(cache, n, cache_key, value) == [cache EXCEPT ![n] = cache_key :> value]
CacheInsert(cache, n, cache_key, value) == [cache EXCEPT ![n] = Put(@, cache_key, value)]

\* Where run_assertions_raw goes after a node's own assertions.
\* Faulty variant: the assertions of the super chain are not run.
AssertionsSuperNone(n) == NoObj
AssertionsSuper(n) == super_obj[n]

UnwrapOr(opt, default) == IF opt = NoObj THEN default ELSE opt
\* The arguments evaluate_this gives the binding.
SelfArg(n, real_this) == real_this
\* Faulty variant: super is taken from the effective self.
SuperArgOfSelf(n, real_this) == super_obj[real_this]
SuperArg(n, real_this) == super_obj[n]
\* The effective self get hands to get_raw.
GetThisArg(r) == this_obj[r]

\* v, evaluated once, handed to K: the sequencing of two calls.
Bind(v, K(_)) == CHOOSE y \in {K(x) : x \in {v}} : TRUE

RECURSIVE Get(_, _, _, _)
RECURSIVE GetRaw(_, _, _, _, _)
RECURSIVE RunAssertionsRaw(_, _, _, _)
RECURSIVE RunEach(_, _, _, _, _)
RECURSIVE AssertionRun(_, _, _, _, _)
RECURSIVE Invoke(_, _, _, _, _)

\* LazyBinding::evaluate(this, super)?.evaluate(): a literal yields its
\* array unless the environment fails it; self.key reads the field of this.
Invoke(st, m, this, sup, fault) ==
    IF m.invoke.kind = "lit"
    THEN IF fault = [kind |-> "member", id |-> m.invoke.lit]
         THEN Ret(st, Err("member"))
         ELSE Ret(st, Ok(<<m.invoke.lit>>))
    ELSE Bind(Get(st, this, m.invoke.key, fault), LAMBDA g :
            IF ~g.res.ok THEN g
            ELSE IF g.res.val = None THEN Ret(g.st, Err("no such field"))
            ELSE Ret(g.st, Ok(g.res.val[1])))

\* ObjectAssertion::run(this, super): reads self.reads if it has one, then
\* holds unless the environment fails it.
AssertionRun(st, a, this, sup, fault) ==
    IF a.reads = ""
    THEN IF fault = [kind |-> "assert", id |-> a.id]
         THEN Ret(st, Err("assertion")) ELSE Ret(st, Ok(None))
    ELSE Bind(Get(st, this, a.reads, fault), LAMBDA g :
            IF ~g.res.ok \/ g.res.val = None \/ fault = [kind |-> "assert", id |-> a.id]
            THEN Ret(g.st, Err("assertion"))
            ELSE Ret(g.st, Ok(None)))

\* evaluate_this: force member k of node n.
EvaluateThis(st, n, key, k, real_this, fault) ==
    Bind(Invoke(st, k, SelfArg(n, real_this), SuperArg(n, real_this), fault), LAMBDA v :
        Ret([v.st EXCEPT
               !.forced = @ \cup {[recv |-> v.st.recv, n |-> n, key |-> key,
                                   self |-> SelfArg(n, real_this),
                                   super |-> SuperArg(n, real_this), ok |-> v.res.ok]},
               !.forcedOk = IF v.res.ok THEN Inc(@, <<n, key, SelfArg(n, real_this)>>) ELSE @],
            v.res))

\* Faulty variant: add(our, v) in place of add(v, our).
CombineParentSwapped(p, our, fault) ==
    IF ~p.res.ok THEN p
    ELSE IF p.res.val = None THEN Ret(p.st, Ok(Some(our)))
    ELSE IF AddOp(our, p.res.val[1], fault).ok
         THEN Ret(p.st, Ok(Some(AddOp(our, p.res.val[1], fault).val)))
         ELSE Ret(p.st, AddOp(our, p.res.val[1], fault))

\* s.get_raw(key, Some(real_this))?.map_or(Ok(Some(our)), |v| Ok(Some(add(v, our)?)))
\* applied to p, the result of s.get_raw.
CombineParent(p, our, fault) ==
    IF ~p.res.ok THEN p
    ELSE IF p.res.val = None THEN Ret(p.st, Ok(Some(our)))
    ELSE IF AddOp(p.res.val[1], our, fault).ok
         THEN Ret(p.st, Ok(Some(AddOp(p.res.val[1], our, fault).val)))
         ELSE Ret(p.st, AddOp(p.res.val[1], our, fault))

\* The match on (this_entries.get(key), super_obj) of get_raw.
Resolve(st, n, key, real_this, fault) ==
    CASE Present(this_entries[n][key]) /\ super_obj[n] = NoObj ->
           Bind(EvaluateThis(st, n, key, this_entries[n][key], real_this, fault), LAMBDA our :
               IF our.res.ok THEN Ret(our.st, Ok(Some(our.res.val))) ELSE our)
      [] Present(this_entries[n][key]) /\ super_obj[n] # NoObj ->
           Bind(EvaluateThis(st, n, key, this_entries[n][key], real_this, fault), LAMBDA our :
               IF ~our.res.ok THEN our
               ELSE IF this_entries[n][key].add
                    THEN Bind(GetRaw(our.st, super_obj[n], key, real_this, fault), LAMBDA p :
                             CombineParent(p, our.res.val, fault))
                    ELSE Ret(our.st, Ok(Some(our.res.val))))
      [] ~Present(this_entries[n][key]) /\ super_obj[n] # NoObj ->
           GetRaw(st, super_obj[n], key, real_this, fault)
      [] OTHER -> Ret(st, Ok(None))

\* Faulty variant: a failed lookup is cached as None.
AfterResolveCachingErrors(v, n, key, real_this) ==
    IF ~v.res.ok
    THEN Ret([v.st EXCEPT !.errFrames = @ \cup {<<n, key, real_this>>},
                          !.cache = CacheInsert(@, n, CacheKey(n, key, real_this), None)],
             v.res)
    ELSE Ret([v.st EXCEPT !.cache = CacheInsert(@, n, CacheKey(n, key, real_this), v.res.val),
                          !.kept = IF Present(this_entries[n][key])
                                   THEN Inc(@, <<n, key, real_this>>) ELSE @,
                          !.rewritten = IF CacheKey(n, key, real_this) \in DOMAIN v.st.cache[n]
                                        THEN @ \cup {<<n, key, real_this>>} ELSE @],
             v.res)

\* The end of get_raw, applied to v, the result of the match: an error
\* leaves by `?`, a value is cached and returned.
AfterResolve(v, n, key, real_this) ==
    IF ~v.res.ok
    THEN Ret([v.st EXCEPT !.errFrames = @ \cup {<<n, key, real_this>>}], v.res)
    ELSE Ret([v.st EXCEPT !.cache = CacheInsert(@, n, CacheKey(n, key, real_this), v.res.val),
                          !.kept = IF Present(this_entries[n][key])
                                   THEN Inc(@, <<n, key, real_this>>) ELSE @,
                          !.rewritten = IF CacheKey(n, key, real_this) \in DOMAIN v.st.cache[n]
                                        THEN @ \cup {<<n, key, real_this>>} ELSE @],
             v.res)

GetRaw(st, n, key, real_this_opt, fault) ==
    IF CacheHit(st.cache, n, CacheKey(n, key, UnwrapOr(real_this_opt, n)))
    THEN Ret(st, Ok(st.cache[n][CacheKey(n, key, UnwrapOr(real_this_opt, n))]))
    ELSE Bind(Resolve(st, n, key, UnwrapOr(real_this_opt, n), fault), LAMBDA v :
            AfterResolve(v, n, key, UnwrapOr(real_this_opt, n)))

\* The for loop of run_assertions_raw from assertion i on.
RunEach(st, n, real_this, i, fault) ==
    IF i > Len(assertions[n]) THEN Ret(st, Ok(None))
    ELSE Bind(AssertionRun([st EXCEPT !.asserted = @ \cup {<<n, real_this, i>>},
                                      !.nrun = Inc(@, <<n, real_this, i>>),
                                      !.reentered = IF \E x \in st.running : x[2] = real_this
                                                    THEN @ \cup {<<n, real_this, i>>} ELSE @,
                                      !.running = @ \cup {<<n, real_this, i>>}],
                           assertions[n][i], real_this, super_obj[n], fault), LAMBDA r :
            IF ~r.res.ok
            THEN Ret([r.st EXCEPT !.ran = RanRemove(@, n, real_this),
                                  !.running = @ \ {<<n, real_this, i>>},
                                  !.failedAt = IF @ = <<0, 0, 0>> THEN <<n, real_this, i>> ELSE @],
                     r.res)
            ELSE RunEach([r.st EXCEPT !.passed = @ \cup {<<n, real_this, i>>},
                                      !.running = @ \ {<<n, real_this, i>>}],
                         n, real_this, i + 1, fault))

RunAssertionsRaw(st, n, real_this, fault) ==
    IF real_this \in st.ran[n] THEN Ret(st, Ok(None))
    ELSE Bind(RunEach([st EXCEPT !.ran = RanInsert(@, n, real_this)], n, real_this, 1, fault),
              LAMBDA r :
                IF ~r.res.ok THEN r
                ELSE IF AssertionsSuper(n) # NoObj
                     THEN RunAssertionsRaw(r.st, AssertionsSuper(n), real_this, fault)
                     ELSE Ret(r.st, Ok(None)))

RunAssertions(st, n, fault) == RunAssertionsRaw(st, n, n, fault)

Get(st, r, key, fault) ==
    Bind(st.recv, LAMBDA outer :
      Bind(RunAssertions([st EXCEPT !.recv = r], r, fault), LAMBDA a :
        Bind(IF a.res.ok THEN GetRaw(a.st, r, key, GetThisArg(r), fault) ELSE a, LAMBDA g :
          Ret([g.st EXCEPT !.recv = outer,
                           !.failedGet = IF g.res.ok THEN @ ELSE @ \cup {<<r, key>>}],
              g.res))))

\* Gc::ptr_eq: the identity of a node is its index in the heap.
PtrEq(a, b) == a = b

\* ----------------------------------------------------------------- actions
NoCall == [op |-> "init", recv |-> NoObj, key |-> "", res |-> Ok(None), prev |-> None,
           forced |-> {}, asserted |-> {}, errFrames |-> {}, failedAt |-> <<0, 0, 0>>,
           rewritten |-> {}, reentered |-> {}]

Begin == [ran |-> assertions_ran, cache |-> value_cache, recv |-> NoObj,
          forced |-> {}, asserted |-> {}, errFrames |-> {}, failedAt |-> <<0, 0, 0>>,
          rewritten |-> {}, running |-> {}, reentered |-> {},
          nrun |-> nrun, passed |-> passed, forcedOk |-> forcedOk, kept |-> kept,
          failedGet |-> failedGet]

Commit(op, r, key, out) ==
    /\ assertions_ran' = out.st.ran
    /\ value_cache' = out.st.cache
    /\ nrun' = out.st.nrun
    /\ passed' = out.st.passed
    /\ forcedOk' = out.st.forcedOk
    /\ kept' = out.st.kept
    /\ failedGet' = IF op = "run_assertions" /\ ~out.res.ok
                    THEN out.st.failedGet \cup {<<r, "">>} ELSE out.st.failedGet
    /\ calls' = calls + 1
    /\ last' = [op |-> op, recv |-> r, key |-> key, res |-> out.res,
                prev |-> IF <<r, key>> \in DOMAIN returned THEN returned[<<r, key>>] ELSE None,
                forced |-> out.st.forced, asserted |-> out.st.asserted,
                errFrames |-> out.st.errFrames, failedAt |-> out.st.failedAt,
                rewritten |-> out.st.rewritten, reentered |-> out.st.reentered]
    /\ UNCHANGED <<super_obj, assertions, this_obj, this_entries, made, query>>

\* The client calls r.get(key).
DoGet(r, key, fault) ==
    /\ calls < MaxCalls
    /\ \E out \in {Get(Begin, r, key, fault)} :
          /\ Commit("get", r, key, out)
          /\ returned' = IF out.res.ok THEN Put(returned, <<r, key>>, out.res.val) ELSE returned

\* The client calls r.run_assertions().
DoRunAssertions(r, fault) ==
    /\ calls < MaxCalls
    /\ \E out \in {RunAssertions(Begin, r, fault)} : Commit("run_assertions", r, "", out)
    /\ UNCHANGED returned

\* The record of a constructor call: the receiver it copied (from), its
\* object argument (arg) and which of the two had cached a value by then.
Made(op, from, arg) ==
    [op |-> op, from |-> from, arg |-> arg,
     warm |-> {x \in {from, arg} \ {NoObj} : value_cache[x] # EmptyMap}]

\* A fresh node (ObjValue::new and with_this build the same struct).
Alloc(sup, ents, asserts, this) ==
    /\ Len(super_obj) < MaxNodes
    /\ super_obj' = Append(super_obj, sup)
    /\ assertions' = Append(assertions, asserts)
    /\ assertions_ran' = Append(assertions_ran, {})
    /\ this_obj' = Append(this_obj, this)
    /\ this_entries' = Append(this_entries, ents)
    /\ value_cache' = Append(value_cache, EmptyMap)
    /\ UNCHANGED <<histVars, query>>

New(sup, ents, asserts) ==
    /\ Alloc(sup, ents, asserts, NoObj)
    /\ made' = Append(made, Made("new", NoObj, NoObj))
NewEmpty == New(NoObj, NoEntries, <<>>)
\* Faulty variant: the new node starts with the receiver's caches.
WithThisKeepingCaches(n, this) ==
    /\ Len(super_obj) < MaxNodes
    /\ super_obj' = Append(super_obj, super_obj[n])
    /\ assertions' = Append(assertions, assertions[n])
    /\ assertions_ran' = Append(assertions_ran, assertions_ran[n])
    /\ this_obj' = Append(this_obj, this)
    /\ this_entries' = Append(this_entries, this_entries[n])
    /\ value_cache' = Append(value_cache, value_cache[n])
    /\ made' = Append(made, Made("with_this", n, this))
    /\ UNCHANGED <<histVars, query>>
WithThis(n, this) ==
    /\ Alloc(super_obj[n], this_entries[n], assertions[n], this)
    /\ made' = Append(made, Made("with_this", n, this))
ExtendWithField(n, key, value) == New(n, Entries1(key, value), <<>>)

\* Faulty variant: one node above sup, the receiver's own chain is left out.
ExtendFromRowsShallow(n, sup, base) == <<[sup |-> sup, from |-> n]>>

RECURSIVE ExtendFromRows(_, _, _)
\* The nodes n.extend_from(sup) allocates, innermost (deepest) first: each is
\* Self::new(Some(super), n's this_entries, n's assertions).  base is the
\* number of nodes allocated before the call.
ExtendFromRows(n, sup, base) ==
    IF super_obj[n] = NoObj
    THEN <<[sup |-> sup, from |-> n]>>
    ELSE LET inner == ExtendFromRows(super_obj[n], sup, base) IN
         Append(inner, [sup |-> base + Len(inner), from |-> n])

\* Faulty variant: each copy keeps the pinned self of the node it copies.
ExtendFromKeepingThis(n, sup, cap) ==
    LET rows == ExtendFromRows(n, sup, Len(super_obj))
        Fresh(f) == [i \in 1..Len(rows) |-> f]
    IN /\ Len(super_obj) + Len(rows) <= cap
       /\ super_obj' = super_obj \o [i \in 1..Len(rows) |-> rows[i].sup]
       /\ assertions' = assertions \o [i \in 1..Len(rows) |-> assertions[rows[i].from]]
       /\ assertions_ran' = assertions_ran \o Fresh({})
       /\ this_obj' = this_obj \o [i \in 1..Len(rows) |-> this_obj[rows[i].from]]
       /\ this_entries' = this_entries \o [i \in 1..Len(rows) |-> this_entries[rows[i].from]]
       /\ value_cache' = value_cache \o Fresh(EmptyMap)
       /\ made' = made \o [i \in 1..Len(rows) |-> Made("extend_from", rows[i].from, sup)]
       /\ UNCHANGED <<histVars, query>>

\* n.extend_from(sup), while the heap holds at most cap nodes.
ExtendFromUpTo(n, sup, cap) ==
    LET rows == ExtendFromRows(n, sup, Len(super_obj))
        Fresh(f) == [i \in 1..Len(rows) |-> f]
    IN /\ Len(super_obj) + Len(rows) <= cap
       /\ super_obj' = super_obj \o [i \in 1..Len(rows) |-> rows[i].sup]
       /\ assertions' = assertions \o [i \in 1..Len(rows) |-> assertions[rows[i].from]]
       /\ assertions_ran' = assertions_ran \o Fresh({})
       /\ this_obj' = this_obj \o Fresh(NoObj)
       /\ this_entries' = this_entries \o [i \in 1..Len(rows) |-> this_entries[rows[i].from]]
       /\ value_cache' = value_cache \o Fresh(EmptyMap)
       /\ made' = made \o [i \in 1..Len(rows) |-> Made("extend_from", rows[i].from, sup)]
       /\ UNCHANGED <<histVars, query>>

ExtendFrom(n, sup) == ExtendFromUpTo(n, sup, MaxNodes)

\* No query made yet.
NoQuery == [op |-> "none", recv |-> NoObj, key |-> "", hidden |-> FALSE, res |-> <<>>,
            seen |-> <<>>, at |-> 0, prev |-> <<>>]

Init ==
    /\ super_obj = <<>>
    /\ assertions = <<>>
    /\ assertions_ran = <<>>
    /\ this_obj = <<>>
    /\ this_entries = <<>>
    /\ value_cache = <<>>
    /\ calls = 0
    /\ last = NoCall
    /\ nrun = EmptyMap
    /\ passed = {}
    /\ forcedOk = EmptyMap
    /\ kept = EmptyMap
    /\ returned = EmptyMap
    /\ failedGet = {}
    /\ made = <<>>
    /\ query = NoQuery

Next ==
    \/ \E sup \in Nodes \cup {NoObj}, l \in 1..Len(ObjLits) :
           New(sup, ObjLits[l].entries, ObjLits[l].asserts)
    \/ NewEmpty
    \/ \E n \in Nodes, sup \in Nodes : ExtendFrom(n, sup)
    \/ \E n \in Nodes, this \in Nodes : WithThis(n, this)
    \/ \E n \in Nodes : ExtendWithField(n, "a", LitMember(2, TRUE, "Normal"))
    \/ \E r \in Nodes, key \in Keys, fault \in Faults : DoGet(r, key, fault)
    \/ \E r \in Nodes, fault \in Faults : DoRunAssertions(r, fault)

Spec == Init /\ [][Next]_vars

\* ------------------------------------------------------ grafting of chains
MaxHeap == 5

\* Objects are built and grafted, and nothing is read: new makes up to
\* MaxNodes nodes, extend_from and with_this fill the heap up to MaxHeap.
NextExt ==
    \/ \E sup \in Nodes \cup {NoObj}, l \in 1..Len(ObjLits) :
           New(sup, ObjLits[l].entries, ObjLits[l].asserts)
    \/ \E n \in Nodes, sup \in Nodes : ExtendFromUpTo(n, sup, MaxHeap)
    \/ \E n \in Nodes, this \in Nodes : WithThis(n, this)

SpecExt == Init /\ [][NextExt]_vars

\* The one get the client makes among the constructor calls.
DoGetOnce(r, key) == calls = 0 /\ DoGet(r, key, NoFault)

\* Objects are built and grafted as in NextExt, and read once.
NextExtGet ==
    \/ NextExt
    \/ \E r \in Nodes, key \in Keys : DoGetOnce(r, key)

SpecExtGet == Init /\ [][NextExtGet]_vars

\* ------------------------------------------------ enumeration, visibility
MaxDepth == 3

\* Visibility::is_visible.
IsVisible(v) == v \in {"Normal", "Unhide"}

\* Ord of IStr, as sort_unstable compares names: the rank of a name.
KeyOrd(k) == IF k = "a" THEN 1 ELSE 2
\* The orders in which a hash map over Keys may be iterated.
Perms == {<<"a", "b">>, <<"b", "a">>}

\* A handler (the FnMut closure given to enum_fields) is the closure of
\* fields_visibility, or a visitor that returns true on a given name ("" :
\* never).  Its captured state is acc: the map `out` of fields_visibility,
\* and the sequence of the entries presented so far.
FoldHandler == [kind |-> "fold", name |-> ""]
StopOn(name) == [kind |-> "stop", name |-> name]
NoAcc == [out |-> EmptyMap, seen |-> <<>>]

\* Faulty variant: Normal overwrites what an ancestor set.
FoldVisibilityOverwriting(out, name, visibility) ==
    Put(out, name, visibility # "Hidden")
\* The match of the closure of fields_visibility.
FoldVisibility(out, name, visibility) ==
    CASE visibility = "Normal" -> IF name \in DOMAIN out THEN out ELSE Put(out, name, TRUE)
      [] visibility = "Hidden" -> Put(out, name, FALSE)
      [] visibility = "Unhide" -> Put(out, name, TRUE)

\* handler(name, &member.visibility) for the entry of node n.
Handle(h, acc, n, name, visibility) ==
    [acc |-> [out |-> IF h.kind = "fold" THEN FoldVisibility(acc.out, name, visibility)
                      ELSE acc.out,
              seen |-> Append(acc.seen, <<n, name, visibility>>)],
     stop |-> h.kind = "stop" /\ h.name = name]

RECURSIVE EnumOwn(_, _, _, _, _)
RECURSIVE EnumFields(_, _, _, _)

\* The for loop of enum_fields over this_entries, iterated in `order`, from
\* position i on.
EnumOwn(n, order, h, acc, i) ==
    IF i > Len(order) THEN [acc |-> acc, stop |-> FALSE]
    ELSE IF ~Present(this_entries[n][order[i]]) THEN EnumOwn(n, order, h, acc, i + 1)
    ELSE Bind(Handle(h, acc, n, order[i], this_entries[n][order[i]].visibility), LAMBDA r :
            IF r.stop THEN r ELSE EnumOwn(n, order, h, r.acc, i + 1))

\* Faulty variant: own entries first, then the super chain.
EnumFieldsChildFirst(n, ord, h, acc) ==
    Bind(EnumOwn(n, ord[n], h, acc, 1), LAMBDA own :
        IF own.stop \/ super_obj[n] = NoObj THEN own
        ELSE EnumFields(super_obj[n], ord, h, own.acc))

\* enum_fields; ord gives each node's hash map its iteration order.
EnumFields(n, ord, h, acc) ==
    Bind(IF super_obj[n] # NoObj THEN EnumFields(super_obj[n], ord, h, acc)
         ELSE [acc |-> acc, stop |-> FALSE], LAMBDA up :
        IF up.stop THEN up ELSE EnumOwn(n, ord[n], h, up.acc, 1))

FieldsVisibility(n, ord) == EnumFields(n, ord, FoldHandler, NoAcc).acc.out

RECURSIVE SortInsert(_, _)
RECURSIVE SortUnstable(_)
SortInsert(k, s) ==
    IF s = <<>> THEN <<k>>
    ELSE IF KeyOrd(k) <= KeyOrd(Head(s)) THEN <<k>> \o s
    ELSE <<Head(s)>> \o SortInsert(k, Tail(s))
\* Faulty variant: the names are left in the order the map gave them.
SortNot(s) == s
\* fields.sort_unstable()
SortUnstable(s) == IF s = <<>> THEN <<>> ELSE SortInsert(Head(s), SortUnstable(Tail(s)))

\* fields_ex; iter is the order into_iter walks the map of fields_visibility.
FieldsEx(n, include_hidden, ord, iter) ==
    Bind(FieldsVisibility(n, ord), LAMBDA out :
        SortUnstable(SelectSeq(iter, LAMBDA k : k \in DOMAIN out /\ (include_hidden \/ out[k]))))
Fields(n, ord, iter) == FieldsEx(n, FALSE, ord, iter)

RECURSIVE FieldVisibility(_, _)
RECURSIVE HasFieldIncludeHidden(_, _)

\* Faulty variant: the nearest entry decides, Normal included.
FieldVisibilityNearest(n, name) ==
    IF Present(this_entries[n][name]) THEN Some(this_entries[n][name].visibility)
    ELSE IF super_obj[n] # NoObj THEN FieldVisibility(super_obj[n], name)
    ELSE None

FieldVisibility(n, name) ==
    IF Present(this_entries[n][name])
    THEN Some(IF this_entries[n][name].visibility = "Normal"
              THEN IF super_obj[n] = NoObj THEN "Normal"
                   ELSE Bind(FieldVisibility(super_obj[n], name), LAMBDA s :
                            IF s = None THEN "Normal" ELSE s[1])
              ELSE this_entries[n][name].visibility)
    ELSE IF super_obj[n] # NoObj THEN FieldVisibility(super_obj[n], name)
    ELSE None

\* Faulty variant: only the receiver's own entries are looked at.
HasFieldIncludeHiddenOwn(n, name) == Present(this_entries[n][name])

HasFieldIncludeHidden(n, name) ==
    IF Present(this_entries[n][name]) THEN TRUE
    ELSE IF super_obj[n] # NoObj THEN HasFieldIncludeHidden(super_obj[n], name)
    ELSE FALSE

HasField(n, name) ==
    Bind(FieldVisibility(n, name), LAMBDA v : IF v = None THEN FALSE ELSE IsVisible(v[1]))

HasFieldEx(n, name, include_hidden) ==
    IF include_hidden THEN HasFieldIncludeHidden(n, name) ELSE HasField(n, name)

\* A query changes nothing of the program; its answer is recorded.  prev
\* is the answer, and the number of client calls made before it, of the
\* query just before when that was the same query on the same receiver.
Answer(op, r, key, hidden, res, seen) ==
    /\ query' = [op |-> op, recv |-> r, key |-> key, hidden |-> hidden, res |-> res,
                 seen |-> seen, at |-> calls,
                 prev |-> IF query.op = op /\ query.recv = r /\ query.key = key
                             /\ query.hidden = hidden
                          THEN <<query.res, query.at>> ELSE <<>>]
    /\ UNCHANGED <<progVars, histVars, made>>

\* The client makes one query and may repeat it once.
CanAsk(op, r, key, hidden) ==
    \/ query.op = "none"
    \/ /\ query.op = op /\ query.recv = r /\ query.key = key /\ query.hidden = hidden
       /\ query.prev = <<>>

DoFieldVisibility(r, key) ==
    /\ CanAsk("field_visibility", r, key, FALSE)
    /\ \E out \in {FieldVisibility(r, key)} :
          Answer("field_visibility", r, key, FALSE, out, <<>>)
DoHasField(r, key) ==
    /\ CanAsk("has_field", r, key, FALSE)
    /\ \E out \in {HasField(r, key)} : Answer("has_field", r, key, FALSE, out, <<>>)
DoHasFieldEx(r, key, include_hidden) ==
    /\ CanAsk("has_field_ex", r, key, include_hidden)
    /\ \E out \in {HasFieldEx(r, key, include_hidden)} :
          Answer("has_field_ex", r, key, include_hidden, out, <<>>)
DoFieldsVisibility(r, ord) ==
    /\ CanAsk("fields_visibility", r, "", FALSE)
    /\ \E out \in {FieldsVisibility(r, ord)} :
          Answer("fields_visibility", r, "", FALSE, out, <<>>)
DoFieldsEx(r, include_hidden, ord, iter) ==
    /\ CanAsk("fields_ex", r, "", include_hidden)
    /\ \E out \in {FieldsEx(r, include_hidden, ord, iter)} :
          Answer("fields_ex", r, "", include_hidden, out, <<>>)
DoFields(r, ord, iter) ==
    /\ CanAsk("fields", r, "", FALSE)
    /\ \E out \in {Fields(r, ord, iter)} : Answer("fields", r, "", FALSE, out, <<>>)
DoEnumFields(r, h, ord) ==
    /\ CanAsk("enum_fields", r, h.name, FALSE)
    /\ \E out \in {EnumFields(r, ord, h, NoAcc)} :
          Answer("enum_fields", r, h.name, FALSE, out.stop, out.acc.seen)
\* A get between a listing of the fields of r and its repetition.
DoGetBetween(r, key) ==
    /\ calls = 0 /\ query.op \in {"fields", "fields_ex"} /\ query.recv = r
    /\ DoGet(r, key, NoFault)

\* The entries of one node of the chain the queries are made on.
VisEntries == {[k \in Keys |-> IF k = "a" THEN ma ELSE mb] :
                 ma \in {NoMember} \cup {LitMember(1, FALSE, v) : v \in Visibility},
                 mb \in {NoMember, LitMember(2, FALSE, "Normal")}}

\* A chain of MaxDepth nodes built by new, of any entries, nothing called yet.
InitVis ==
    /\ super_obj = [n \in 1..MaxDepth |-> n - 1]
    /\ assertions = [n \in 1..MaxDepth |-> <<>>]
    /\ assertions_ran = [n \in 1..MaxDepth |-> {}]
    /\ this_obj = [n \in 1..MaxDepth |-> NoObj]
    /\ this_entries \in [1..MaxDepth -> VisEntries]
    /\ value_cache = [n \in 1..MaxDepth |-> EmptyMap]
    /\ calls = 0
    /\ last = NoCall
    /\ nrun = EmptyMap
    /\ passed = {}
    /\ forcedOk = EmptyMap
    /\ kept = EmptyMap
    /\ returned = EmptyMap
    /\ failedGet = {}
    /\ made = [n \in 1..MaxDepth |-> [op |-> "new", from |-> NoObj, arg |-> NoObj, warm |-> {}]]
    /\ query = NoQuery

NextVis ==
    \/ \E r \in Nodes, key \in Keys : DoFieldVisibility(r, key)
    \/ \E r \in Nodes, key \in Keys : DoHasField(r, key)
    \/ \E r \in Nodes, key \in Keys, include_hidden \in BOOLEAN :
           DoHasFieldEx(r, key, include_hidden)
    \/ \E r \in Nodes, ord \in [Nodes -> Perms] : DoFieldsVisibility(r, ord)
    \/ \E r \in Nodes, include_hidden \in BOOLEAN, ord \in [Nodes -> Perms], iter \in Perms :
           DoFieldsEx(r, include_hidden, ord, iter)
    \/ \E r \in Nodes, ord \in [Nodes -> Perms], iter \in Perms : DoFields(r, ord, iter)
    \/ \E r \in Nodes, name \in Keys \cup {""}, ord \in [Nodes -> Perms] :
           DoEnumFields(r, StopOn(name), ord)
    \/ \E r \in Nodes, key \in Keys : DoGetBetween(r, key)

SpecVis == InitVis /\ [][NextVis]_vars

\* ------------------------------------------------------ reference meaning
\* The effective self of a public get on r.
Eff(r) == IF this_obj[r] # NoObj THEN this_obj[r] ELSE r

RECURSIVE Meaning(_, _, _)
\* What key means at node n for effective self t, read off the object graph
\* with no cache, no assertion and no failing environment: the nearest
\* member on n's chain, added to what the chain below it means while the
\* member is additive.  ok is FALSE when self.key names a missing field.
Meaning(n, key, t) ==
    LET m == this_entries[n][key]
        our == IF m.invoke.kind = "lit" THEN [ok |-> TRUE, val |-> Some(<<m.invoke.lit>>)]
               ELSE Meaning(t, m.invoke.key, Eff(t))
        below == IF super_obj[n] = NoObj THEN [ok |-> TRUE, val |-> None]
                 ELSE Meaning(super_obj[n], key, t)
    IN IF ~Present(m) THEN below
       ELSE IF ~our.ok \/ our.val = None THEN [ok |-> FALSE, val |-> None]
       ELSE IF ~m.add THEN our
       ELSE IF ~below.ok THEN below
       ELSE IF below.val = None THEN our
       ELSE [ok |-> TRUE, val |-> Some(below.val[1] \o our.val[1])]

LastGetOk == last.op = "get" /\ last.res.ok
\* Every assertion on r's chain, as <<defining node, target, index>>.
AllAssertions(r) == UNION {{<<n, r, i>> : i \in 1..Len(assertions[n])} : n \in ChainSet(r)}
\* The receivers a client get has succeeded on, and those a get or
\* run_assertions has failed on.
OkReceivers == {p[1] : p \in DOMAIN returned}
FailedReceivers == {p[1] : p \in failedGet}

\* ------------------------------------------------------------------ claims

\* C1: a client get returns a value only if every assertion of the receiver
\* and of every node on its super chain has run successfully for the
\* receiver as target.
C1_ValueOnlyAfterAssertions ==
    LastGetOk => AllAssertions(last.recv) \subseteq passed

\* C2: when an assertion for the receiver fails during a get, the next get
\* on the same receiver invokes that assertion again.
C2_FailedAssertionReruns ==
    [][(/\ last.op = "get" /\ ~last.res.ok
        /\ last.failedAt # <<0, 0, 0>> /\ last.failedAt[2] = last.recv
        /\ calls' = calls + 1 /\ last'.op = "get" /\ last'.recv = last.recv)
       => last.failedAt \in last'.asserted]_vars

\* C3: on a receiver whose gets have all succeeded (at least one), every
\* assertion on the receiver's chain has been invoked exactly once for the
\* receiver as target.
C3_AssertionRunsOnce ==
    \A r \in OkReceivers \ FailedReceivers :
        \A x \in AllAssertions(r) : Count(nrun, x) = 1

\* C3 witness: two successful gets on a receiver that never failed, with an
\* assertion on a node above it.
C3_Witness ==
    \E r \in OkReceivers \ FailedReceivers :
        /\ {<<r, "a">>, <<r, "b">>} \subseteq DOMAIN returned
        /\ \E n \in ChainSet(r) \ {r} : Len(assertions[n]) > 0

\* C4: once a client get(k) on o has returned Some(v), a later get(k) on o
\* returns the same Some(v) and forces no member and invokes no assertion.
C4_GetIdempotent ==
    (last.op = "get" /\ last.prev # None)
        => (last.res = Ok(last.prev) /\ last.forced = {} /\ last.asserted = {})

\* C4 witness: a second get(k) on a receiver returning the value of an
\* additive field combined along a chain.
C4_Witness ==
    /\ last.op = "get" /\ last.prev # None /\ last.res.ok
    /\ Len(last.res.val[1]) > 1

\* C5 as claimed: for a given (node, field, effective self) the member is
\* forced to a value at most once.
C5_ForcedAtMostOnce ==
    \A x \in DOMAIN forcedOk : forcedOk[x] <= 1

\* C5 amended: at most one resolution of the member completes, and only an
\* additive member of a node with a super is ever forced to a value twice.
C5_ResolvedAtMostOnce ==
    /\ \A x \in DOMAIN kept : kept[x] <= 1
    /\ \A x \in DOMAIN forcedOk :
          forcedOk[x] > 1 => (this_entries[x[1]][x[2]].add /\ super_obj[x[1]] # NoObj)

\* C5 witness: a member forced to a value twice, its resolution completed once.
C5_Witness ==
    \E x \in DOMAIN forcedOk : forcedOk[x] = 2 /\ Count(kept, x) = 1

\* C6: a get_raw that fails leaves no entry for its (key, effective self) in
\* the value_cache of its node.
C6_ErrorsNotCached ==
    \A f \in last.errFrames : ~CacheHit(value_cache, f[1], CacheKey(f[1], f[2], f[3]))

\* C6 witness: a get(k) that failed after forcing the receiver's member is
\* attempted again, forces the member again and succeeds.
C6_Witness ==
    /\ LastGetOk /\ <<last.recv, last.key>> \in failedGet
    /\ Count(forcedOk, <<last.recv, last.key, Eff(last.recv)>>) = 2
    /\ \E e \in last.forced : e.n = last.recv /\ e.key = last.key /\ e.ok

\* C7: every member forced during a public get on recv, at whatever node n
\* of recv's chain, is invoked with self = the effective self of recv and
\* super = n's own super.
C7_LateSelfLexicalSuper ==
    \A e \in last.forced :
        /\ e.n \in ChainSet(e.recv)
        /\ e.self = Eff(e.recv)
        /\ e.super = super_obj[e.n]

\* C7 witness: a get on a node with a pinned self forces a member of an
\* ancestor, and the pinned self has another super than the defining node.
C7_Witness ==
    \E e \in last.forced :
        /\ this_obj[e.recv] # NoObj /\ e.n # e.recv /\ e.ok
        /\ e.self # e.n /\ super_obj[e.self] # super_obj[e.n]

\* C8: a get of a key the receiver defines: an additive member with a super
\* yields add(v, our) when the super means Some(v) for the same effective
\* self and our when it means None; any other member yields our alone.
C8_FieldAddition ==
    (LastGetOk /\ Present(this_entries[last.recv][last.key])) =>
        LET r == last.recv
            m == this_entries[r][last.key]
            our == IF m.invoke.kind = "lit" THEN <<m.invoke.lit>>
                   ELSE Meaning(Eff(r), m.invoke.key, Eff(Eff(r))).val[1]
            parent == IF m.add /\ super_obj[r] # NoObj
                      THEN Meaning(super_obj[r], last.key, Eff(r)).val ELSE None
        IN last.res.val = IF parent = None THEN Some(our) ELSE Some(parent[1] \o our)

\* C8 witness: add(v, our) where v itself came from an addition.
C8_Witness ==
    /\ LastGetOk /\ Present(this_entries[last.recv][last.key])
    /\ this_entries[last.recv][last.key].add
    /\ last.res.val # None /\ Len(last.res.val[1]) = 3

\* C9: every entry (key, t) of a node's value_cache holds what key means at
\* that node for effective self t.
C9_CacheKeyedBySelf ==
    \A n \in Nodes : \A ck \in DOMAIN value_cache[n] :
        /\ Meaning(n, ck[1], ck[2]).ok
        /\ value_cache[n][ck] = Meaning(n, ck[1], ck[2]).val

\* C9 witness: one node caches different values of one key for two
\* effective selves.
C9_Witness ==
    \E n \in Nodes : \E c1, c2 \in DOMAIN value_cache[n] :
        /\ c1[1] = c2[1] /\ c1[2] # c2[2]
        /\ value_cache[n][c1] # value_cache[n][c2]
        /\ value_cache[n][c1] # None /\ value_cache[n][c2] # None

\* C10: a get returns None exactly when no node of the receiver's chain has
\* the key, an error whenever something it invoked failed, and stores what
\* it returns, None included, in the receiver's cache.
C10_GetResult ==
    last.op = "get" =>
        /\ last.res.ok =>
              /\ (last.res.val = None) <=>
                   (\A n \in ChainSet(last.recv) : ~Present(this_entries[n][last.key]))
              /\ CacheHit(value_cache, last.recv, CacheKey(last.recv, last.key, Eff(last.recv)))
              /\ value_cache[last.recv][CacheKey(last.recv, last.key, Eff(last.recv))] = last.res.val
        /\ ((\E e \in last.forced : ~e.ok) \/ last.errFrames # {} \/ last.failedAt # <<0, 0, 0>>)
              => ~last.res.ok

\* C10 witness: a get that returned None, now in the receiver's cache, on a
\* receiver with a super.
C10_Witness ==
    /\ LastGetOk /\ last.res.val = None /\ super_obj[last.recv] # NoObj
    /\ value_cache[last.recv][CacheKey(last.recv, last.key, Eff(last.recv))] = None

\* ------------------------------------------- reference for the visibility
\* The positions on r's chain (1: r itself) whose node has an own entry for
\* k, and those among them whose entry is not Normal.
Holders(r, k) == {i \in 1..Len(Chain(r)) : Present(this_entries[Chain(r)[i]][k])}
Deciders(r, k) == {i \in Holders(r, k) : this_entries[Chain(r)[i]][k].visibility # "Normal"}
Nearest(S) == CHOOSE i \in S : \A j \in S : i <= j
\* The first entry that is not Normal decides; all Normal: Normal; none: None.
RefVisibility(r, k) ==
    IF Holders(r, k) = {} THEN None
    ELSE IF Deciders(r, k) = {} THEN Some("Normal")
    ELSE Some(this_entries[Chain(r)[Nearest(Deciders(r, k))]][k].visibility)
RefVisible(r, k) == RefVisibility(r, k) \notin {None, Some("Hidden")}

RECURSIVE RefFold(_, _, _, _)
\* The entry of name k after the levels i, i-1, .., 1 of r's chain have been
\* folded parent first into cur (<<>>: no entry yet).
RefFold(r, k, i, cur) ==
    IF i = 0 THEN cur
    ELSE LET m == this_entries[Chain(r)[i]][k] IN
         RefFold(r, k, i - 1,
                 IF ~Present(m) THEN cur
                 ELSE IF m.visibility = "Hidden" THEN <<FALSE>>
                 ELSE IF m.visibility = "Unhide" THEN <<TRUE>>
                 ELSE IF cur = <<>> THEN <<TRUE>> ELSE cur)

Range(s) == {s[i] : i \in 1..Len(s)}
\* Every own entry on r's chain, as <<node, name, visibility>>.
AllEntries(r) ==
    {<<n, k, this_entries[n][k].visibility>> : n \in ChainSet(r), k \in Keys}
        \cap {e \in ChainSet(r) \X Keys \X Visibility : Present(this_entries[e[1]][e[2]])}
ChainPos(r, n) == CHOOSE i \in 1..Len(Chain(r)) : Chain(r)[i] = n

\* C11: field_visibility and has_field are decided by the first entry for
\* the name, from the receiver toward the root, that is not Normal; all
\* Normal is visible; no entry is None / false; has_field_ex(k, true) is
\* true exactly when some node of the chain has the name.
C11_VisibilityDecidedByNearest ==
    /\ query.op = "field_visibility" => query.res = RefVisibility(query.recv, query.key)
    /\ query.op = "has_field" => query.res = RefVisible(query.recv, query.key)
    /\ query.op = "has_field_ex" =>
          query.res = IF query.hidden THEN Holders(query.recv, query.key) # {}
                      ELSE RefVisible(query.recv, query.key)

\* C11 witness: has_field is false on a receiver whose own entry is Normal
\* over a Hidden entry of an ancestor.
C11_Witness ==
    /\ query.op = "has_field" /\ query.res = FALSE
    /\ Present(this_entries[query.recv][query.key])
    /\ this_entries[query.recv][query.key].visibility = "Normal"
    /\ Deciders(query.recv, query.key) # {}

\* C12: the map of fields_visibility has exactly the names defined on the
\* chain, each with the value of the parent-first fold: Hidden false, Unhide
\* true, Normal true only when the name has no entry yet.
C12_FieldsVisibilityFold ==
    query.op = "fields_visibility" =>
        /\ DOMAIN query.res = {k \in Keys : Holders(query.recv, k) # {}}
        /\ \A k \in DOMAIN query.res :
              <<query.res[k]>> = RefFold(query.recv, k, Len(Chain(query.recv)), <<>>)

\* C12 witness: a name kept false under the receiver's own Normal entry,
\* beside a second name.
C12_Witness ==
    /\ query.op = "fields_visibility"
    /\ DOMAIN query.res = Keys
    /\ \E k \in Keys : /\ query.res[k] = FALSE
                       /\ Present(this_entries[query.recv][k])
                       /\ this_entries[query.recv][k].visibility = "Normal"

\* C13: fields_ex lists each qualifying name once, in ascending order: all
\* names of the chain with include_hidden, only the visible ones without;
\* a repeated call returns the same sequence, gets in between or not.
C13_FieldsSortedOnce ==
    query.op \in {"fields", "fields_ex"} =>
        LET want == {k \in Keys : /\ Holders(query.recv, k) # {}
                                  /\ (query.hidden \/ RefVisible(query.recv, k))}
        IN /\ Range(query.res) = want
           /\ Len(query.res) = Cardinality(want)
           /\ \A i, j \in 1..Len(query.res) : i < j => KeyOrd(query.res[i]) < KeyOrd(query.res[j])
           /\ query.prev # <<>> => query.prev[1] = query.res

\* C13 witness: a listing of two names repeated after a get on the object.
C13_Witness ==
    /\ query.op = "fields_ex" /\ query.prev # <<>>
    /\ query.prev[2] < query.at
    /\ Len(query.res) = 2

\* C18: enum_fields presents the own entries of every ancestor before any
\* own entry of a descendant, each entry of each level once, and stops at
\* the first entry on which the visitor returns true: it then returns true
\* with nothing visited after that entry; otherwise it visits every entry
\* and returns false.
C18_EnumParentFirst ==
    query.op = "enum_fields" =>
        LET seen == query.seen
            r == query.recv
        IN /\ Range(seen) \subseteq AllEntries(r)
           /\ \A i, j \in 1..Len(seen) :
                 i < j => /\ seen[i] # seen[j]
                          /\ ChainPos(r, seen[i][1]) >= ChainPos(r, seen[j][1])
           /\ \A i \in 1..Len(seen) : \A e \in AllEntries(r) :
                 ChainPos(r, e[1]) > ChainPos(r, seen[i][1]) => e \in Range(seen)
           /\ query.res = (\E i \in 1..Len(seen) : seen[i][2] = query.key)
           /\ query.res = TRUE =>
                 \A i \in 1..Len(seen) : (seen[i][2] = query.key) <=> (i = Len(seen))
           /\ query.res = FALSE => Range(seen) = AllEntries(r)

\* C18 witness: the visitor stops on an entry of an ancestor after another
\* entry was presented, and entries of the levels below are never visited.
C18_Witness ==
    /\ query.op = "enum_fields" /\ query.res = TRUE
    /\ Len(query.seen) >= 2
    /\ query.seen[Len(query.seen)][1] # query.recv
    /\ \E e \in AllEntries(query.recv) \ Range(query.seen) : e[2] = query.key

\* C19: the child-first walk and the parent-first fold agree: has_field(k)
\* is true iff k is in fields_ex(false), and has_field_ex(k, true) iff k is
\* in fields_ex(true), for every receiver, name and iteration order.
C19_VisibilityAlgorithmsAgree ==
    /\ query.op \in {"has_field", "has_field_ex"} =>
          \A ord \in [Nodes -> Perms], iter \in Perms :
              query.res = (query.key \in Range(FieldsEx(query.recv, query.hidden, ord, iter)))
    /\ query.op \in {"fields", "fields_ex"} =>
          \A k \in Keys :
              (k \in Range(query.res)) = HasFieldEx(query.recv, k, query.hidden)

\* C19 witness: has_field is false for a name fields_ex(true) lists, the
\* receiver and the level below it Normal, the root Hidden.
C19_Witness ==
    /\ query.op = "has_field" /\ query.res = FALSE
    /\ HasFieldIncludeHidden(query.recv, query.key)
    /\ Holders(query.recv, query.key) = {1, 2, 3}
    /\ Deciders(query.recv, query.key) = {3}

\* C14: the chain of a.extend_from(b) is a copy of a's chain, node by node
\* in the original order with the same own members and assertions, followed
\* by b's chain itself; so in a.extend_from(b).extend_from(c) the chain of c
\* lies below everything from a and b.
C14_ExtendFromGraftsAtBottom ==
    \A m \in Nodes : made[m].op = "extend_from" =>
        LET a == Chain(made[m].from)
            b == Chain(made[m].arg)
            c == Chain(m)
        IN /\ Len(c) = Len(a) + Len(b)
           /\ \A i \in 1..Len(a) : /\ this_entries[c[i]] = this_entries[a[i]]
                                   /\ assertions[c[i]] = assertions[a[i]]
                                   /\ c[i] \notin Range(a) \cup Range(b)
           /\ SubSeq(c, Len(a) + 1, Len(c)) = b

\* C14 witness: a.extend_from(b).extend_from(c) with different members in a
\* and b: copies of a and b lie above c.
C14_Witness ==
    \E m \in Nodes :
        /\ made[m].op = "extend_from" /\ made[made[m].from].op = "extend_from"
        /\ Len(Chain(made[m].from)) = 2
        /\ this_entries[Chain(m)[1]] # this_entries[Chain(m)[2]]
        /\ Chain(m)[3] = made[m].arg

\* C15: with_this returns a node that is not ptr_eq to the receiver, with
\* the receiver's super, own members and assertions, the argument as pinned
\* self, an empty value_cache and empty assertions_ran, and leaves the
\* receiver's value_cache and assertions_ran as they were; ptr_eq(o, o).
C15_WithThisFresh ==
    [][(Len(made') = Len(made) + 1 /\ made'[Len(made')].op = "with_this") =>
         LET m == Len(made')
             n == made'[Len(made')].from
         IN /\ ~PtrEq(m, n)
            /\ \A o \in 1..m : PtrEq(o, o)
            /\ super_obj'[m] = super_obj[n]
            /\ this_entries'[m] = this_entries[n]
            /\ assertions'[m] = assertions[n]
            /\ this_obj'[m] = made'[m].arg
            /\ value_cache'[m] = EmptyMap
            /\ assertions_ran'[m] = {}
            /\ value_cache'[n] = value_cache[n]
            /\ assertions_ran'[n] = assertions_ran[n]]_vars

\* C15 witness: with_this has just returned, on a receiver that had cached a
\* value and recorded an assertion run.
C15_Witness ==
    /\ Len(made) > 0 /\ made[Len(made)].op = "with_this"
    /\ made[Len(made)].from \in made[Len(made)].warm
    /\ value_cache[made[Len(made)].from] # EmptyMap
    /\ assertions_ran[made[Len(made)].from] # {}
    /\ value_cache[Len(made)] = EmptyMap
    /\ assertions_ran[Len(made)] = {}

\* C16: the assertions a get runs on its receiver's chain are invoked with
\* the receiver's effective self as target (the pinned self when there is
\* one, the receiver otherwise), and the marker the get leaves in the
\* receiver's assertions_ran is that target.
C16_AssertionsTargetPinnedSelf ==
    LastGetOk =>
        /\ Eff(last.recv) \in assertions_ran[last.recv]
        /\ \A x \in last.asserted : x[1] \in ChainSet(last.recv) => x[2] = Eff(last.recv)

\* C16, the part the code keeps: without a pinned self the target is the
\* receiver.
C16_TargetIsReceiverWhenUnpinned ==
    (LastGetOk /\ this_obj[last.recv] = NoObj) =>
        /\ last.recv \in assertions_ran[last.recv]
        /\ \A x \in last.asserted : x[1] \in ChainSet(last.recv) => x[2] = last.recv

\* C17: no step changes the super, own members, assertions or pinned self
\* of an existing node, removes an entry of a value_cache or changes its
\* value, and no insertion into a value_cache finds the key present.
C17_ImmutableWriteOnce ==
    [][/\ \A n \in Nodes :
             /\ super_obj'[n] = super_obj[n]
             /\ this_entries'[n] = this_entries[n]
             /\ assertions'[n] = assertions[n]
             /\ this_obj'[n] = this_obj[n]
             /\ \A ck \in DOMAIN value_cache[n] :
                   /\ ck \in DOMAIN value_cache'[n]
                   /\ value_cache'[n][ck] = value_cache[n][ck]
       /\ last'.rewritten = {}]_vars

\* C17 witness: a get has added an entry to a value_cache that held
\* another entry from an earlier get.
C17_Witness ==
    /\ LastGetOk /\ calls = 2 /\ last.forced # {}
    /\ \E ck \in DOMAIN value_cache[last.recv] :
          /\ ck[1] # last.key
          /\ <<last.recv, ck[1]>> \in DOMAIN returned

\* C20: within one client call no assertion is invoked while an assertion
\* for the same target is in progress (the nested run on the receiver
\* returns at the marker), no assertion is invoked twice, and a successful
\* run on a receiver not marked before invokes every assertion of the
\* receiver's chain exactly once.
C20_ReentrantRunReturns ==
    [][(calls' = calls + 1) =>
         /\ last'.reentered = {}
         /\ \A x \in DOMAIN nrun' : Count(nrun', x) - Count(nrun, x) <= 1
         /\ (last'.res.ok /\ last'.recv \notin assertions_ran[last'.recv]) =>
               \A x \in AllAssertions(last'.recv) : Count(nrun', x) - Count(nrun, x) = 1]_vars

\* C20 witness: run_assertions succeeded on a receiver whose assertion read
\* a field of the receiver: the nested get forced a member.
C20_Witness ==
    /\ last.op = "run_assertions" /\ last.res.ok
    /\ \E x \in last.asserted : x[2] = last.recv /\ assertions[x[1]][x[3]].reads # ""
    /\ \E e \in last.forced : e.recv = last.recv

\* C21: a step of a.extend_from(b) changes no field, value_cache or
\* assertions_ran of an existing node; it adds one fresh node per node of
\* a's chain, with that node's own members and assertions, an empty
\* value_cache, empty assertions_ran and no pinned self; the bottom copy has
\* b itself as super, and no value_cache key of an existing node names a
\* fresh node as effective self.
C21_ExtendFromCopiesFresh ==
    [][(Len(made') > Len(made) /\ made'[Len(made')].op = "extend_from") =>
         LET top == Len(made')
             a == made'[Len(made')].from
             b == made'[Len(made')].arg
             fresh == (Len(made) + 1)..Len(made')
         IN /\ \A n \in Nodes :
                  /\ super_obj'[n] = super_obj[n]
                  /\ this_entries'[n] = this_entries[n]
                  /\ assertions'[n] = assertions[n]
                  /\ this_obj'[n] = this_obj[n]
                  /\ value_cache'[n] = value_cache[n]
                  /\ assertions_ran'[n] = assertions_ran[n]
                  /\ \A ck \in DOMAIN value_cache'[n] : ck[2] \notin fresh
            /\ Cardinality(fresh) = Len(Chain(a))
            /\ \A i \in 1..Len(Chain(a)) :
                  /\ made'[top + 1 - i].from = Chain(a)[i]
                  /\ this_entries'[top + 1 - i] = this_entries[Chain(a)[i]]
                  /\ assertions'[top + 1 - i] = assertions[Chain(a)[i]]
                  /\ super_obj'[top + 1 - i] = IF i = Len(Chain(a)) THEN b ELSE top - i
            /\ \A m \in fresh :
                  /\ value_cache'[m] = EmptyMap
                  /\ assertions_ran'[m] = {}
                  /\ this_obj'[m] = NoObj
            /\ b \in Nodes]_vars

\* C21 witness: extend_from has just returned, on a receiver with a pinned
\* self and a chain of two nodes, and an argument that had cached a value.
C21_Witness ==
    /\ Len(made) > 0 /\ made[Len(made)].op = "extend_from"
    /\ this_obj[made[Len(made)].from] # NoObj
    /\ Len(Chain(made[Len(made)].from)) = 2
    /\ made[Len(made)].arg \in made[Len(made)].warm
    /\ value_cache[made[Len(made)].arg] # EmptyMap
    /\ this_obj[Len(made)] = NoObj

====
